---- MODULE Spec2Model ----
(***************************************************************************)
(* A model of the workflow graph engine of app/engine.py: the Tool         *)
(* Registry, the Graph Store, the Run Store and the step loop of           *)
(* GraphEngine.run_graph.  Python objects that can be aliased (dicts and   *)
(* lists) live in a heap and are referred to by their index, so that a     *)
(* shallow copy, a deep copy and an in-place mutation are different things.*)
(***************************************************************************)
EXTENDS Integers, Sequences, FiniteSets, TLC

\* ------------------------------------------------------------------ bounds
MaxSteps == 3
MaxCalls == 2
MaxGraphs == 1
MaxRegisters == 2
MaxMutations == 1
MaxInt == 3

\* ------------------------------------------------------------------ values
\* Python's None, as a node id / a target / a missing string field.
NONE == "<None>"

\* A Python value held in a state mapping or in an edge's condition_value.
\* t: "none" | "int" | "str" | "ref" (a reference to a heap list) |
\*    "list" (a list held by value, only in resolved snapshots) |
\*    "text" (a str held as the sequence of its words: what split() yields
\*    and what " ".join() of them denotes; no edge of the catalogues
\*    compares a text).
VNone == [t |-> "none", v |-> 0, items |-> <<>>]
VInt(n) == [t |-> "int", v |-> n, items |-> <<>>]
VStr(s) == [t |-> "str", v |-> s, items |-> <<>>]
VRef(r) == [t |-> "ref", v |-> r, items |-> <<>>]
VList(xs) == [t |-> "list", v |-> 0, items |-> xs]
VText(ws) == [t |-> "text", v |-> 0, items |-> ws]

\* The empty mapping {}.
EmptyDict == [k \in {} |-> VNone]

\* Heap objects: a dict (d: key -> value) or a list (items).
DictObj(d) == [kind |-> "dict", d |-> d, items |-> <<>>]
ListObj(xs) == [kind |-> "list", d |-> EmptyDict, items |-> xs]

\* dict.get(key): the value, or None when the key is absent.
DictGet(d, k) == IF k \in DOMAIN d THEN d[k] ELSE VNone

\* A variant of the merge in which a key the state already has keeps its
\* value (setdefault for every returned key).
DictUpdateKeepsOld(d, updates) == d @@ updates

\* dict.update(updates): the keys of updates overwrite, the others stay.
DictUpdate(d, updates) == updates @@ d

\* ------------------------------------------------------------------ heap
\* The elements of a finite set of integers, in increasing order.
RECURSIVE SortedSeq(_)
SortedSeq(S) ==
  IF S = {} THEN <<>>
  ELSE LET m == CHOOSE x \in S : \A y \in S : x <= y
       IN <<m>> \o SortedSeq(S \ {m})

\* The position of x in the sequence xs (x occurs in xs).
IndexOf(xs, x) == CHOOSE i \in 1..Len(xs) : xs[i] = x

\* The heap lists a mapping's values refer to.
RefsOf(d) == {d[k].v : k \in {j \in DOMAIN d : d[j].t = "ref"}}

\* The mapping at r read by value: every reference replaced by the list's
\* present content.  Two mappings resolve alike iff a reader sees the same.
Resolve(h, r) ==
  LET d == h[r].d
  IN [k \in DOMAIN d |->
        IF d[k].t = "ref" THEN VList(h[d[k].v].items) ELSE d[k]]

\* dict(initial_state): a new dict object with the same top-level bindings;
\* nested lists are shared with the original.
ShallowCopy(h, r) ==
  [heap |-> Append(h, DictObj(h[r].d)), ref |-> Len(h) + 1]

\* A variant of the snapshot that copies the top level only (dict(state)):
\* the snapshot shares its nested lists with the live state.
DeepCopySharesLists(h, r) == ShallowCopy(h, r)

\* copy.deepcopy(state): a new dict whose nested lists are new lists with
\* the same items (one copy per distinct list, as deepcopy's memo does).
DeepCopy(h, r) ==
  LET d == h[r].d
      rs == SortedSeq(RefsOf(d))
      copies == [i \in 1..Len(rs) |-> ListObj(h[rs[i]].items)]
      nd == [k \in DOMAIN d |->
               IF d[k].t = "ref"
               THEN VRef(Len(h) + IndexOf(rs, d[k].v))
               ELSE d[k]]
  IN [heap |-> h \o copies \o <<DictObj(nd)>>,
      ref |-> Len(h) + Len(rs) + 1]

\* A mapping given by value (lists as VList) built as heap objects, the way
\* a caller holds the initial_state it passes in.
AllocDict(h, bv) ==
  LET lk == {k \in DOMAIN bv : bv[k].t = "list"}
      ks == CHOOSE q \in [1..Cardinality(lk) -> lk] :
              \A i, j \in 1..Cardinality(lk) : i # j => q[i] # q[j]
      lists == [i \in 1..Cardinality(lk) |-> ListObj(bv[ks[i]].items)]
      d == [k \in DOMAIN bv |->
              IF bv[k].t = "list"
              THEN VRef(Len(h) + IndexOf(ks, k))
              ELSE bv[k]]
  IN [heap |-> h \o lists \o <<DictObj(d)>>,
      ref |-> Len(h) + Cardinality(lk) + 1]

\* ------------------------------------------------------------------ graphs
\* NodeConfig / Node: id, tool, config (config by value, passed verbatim).
Node(id, tool, config) == [id |-> id, tool |-> tool, config |-> config]

\* EdgeConfig / Edge with its defaults: every optional field is None.
Edge(from_node, to_node, condition_key, condition_op, condition_value, true_target, false_target) ==
  [from_node |-> from_node, to_node |-> to_node,
   condition_key |-> condition_key, condition_op |-> condition_op,
   condition_value |-> condition_value,
   true_target |-> true_target, false_target |-> false_target]

LinearEdge(from_node, to_node) ==
  Edge(from_node, to_node, NONE, NONE, VNone, NONE, NONE)

CondEdge(from_node, key, op, value, true_target, false_target) ==
  Edge(from_node, NONE, key, op, value, true_target, false_target)

\* create_graph's two loops: nodes[nc.id] = Node(...) and
\* edges[ec.from_node] = Edge(...); a later entry of the list overwrites an
\* earlier one with the same key.
RECURSIVE NodesOf(_)
NodesOf(nodes_cfg) ==
  IF nodes_cfg = <<>> THEN [k \in {} |-> Node(NONE, NONE, EmptyDict)]
  ELSE LET n == Len(nodes_cfg)
           nc == nodes_cfg[n]
       IN (nc.id :> nc) @@ NodesOf(SubSeq(nodes_cfg, 1, n - 1))

RECURSIVE EdgesOf(_)
EdgesOf(edges_cfg) ==
  IF edges_cfg = <<>> THEN [k \in {} |-> LinearEdge(NONE, NONE)]
  ELSE LET n == Len(edges_cfg)
           ec == edges_cfg[n]
       IN (ec.from_node :> ec) @@ EdgesOf(SubSeq(edges_cfg, 1, n - 1))

Graph(id, name, start_node, nodes, edges) ==
  [id |-> id, name |-> name, start_node |-> start_node,
   nodes |-> nodes, edges |-> edges]

\* ------------------------------------------------------------------ resolver
\* Whether Python orders the two values: both ints or both strings.  None,
\* a list against a scalar, and an int against a string raise TypeError.
Orderable(lhs, rhs) == lhs.t = rhs.t /\ lhs.t \in {"int", "str"}

\* Python's ==, which never raises: values of different types are unequal,
\* and a list is unequal to every scalar.
PyEq(lhs, rhs) ==
  lhs.t = rhs.t /\ lhs.t # "ref" /\ lhs.v = rhs.v /\ lhs.items = rhs.items

\* GraphEngine._compare: "true", "false", or the exception it raises.
Compare(lhs, op, rhs) ==
  LET b(x) == IF x THEN "true" ELSE "false"
  IN CASE op = "gt" -> IF Orderable(lhs, rhs) THEN b(lhs.v > rhs.v) ELSE "TypeError"
       [] op = "ge" -> IF Orderable(lhs, rhs) THEN b(lhs.v >= rhs.v) ELSE "TypeError"
       [] op = "lt" -> IF Orderable(lhs, rhs) THEN b(lhs.v < rhs.v) ELSE "TypeError"
       [] op = "le" -> IF Orderable(lhs, rhs) THEN b(lhs.v <= rhs.v) ELSE "TypeError"
       [] op = "eq" -> b(PyEq(lhs, rhs))
       [] op = "ne" -> b(~PyEq(lhs, rhs))
       [] OTHER -> "ValueError"

\* GraphEngine._next_node_id on the state mapping d:
\* [exc |-> "" or the exception, node |-> the next node id or None].
NextNodeId(graph, current_node_id, d) ==
  IF current_node_id \notin DOMAIN graph.edges
  THEN [exc |-> "", node |-> NONE]
  ELSE LET edge == graph.edges[current_node_id]
       IN IF edge.condition_key = NONE \/ edge.condition_op = NONE
          THEN [exc |-> "", node |-> edge.to_node]
          ELSE LET value == DictGet(d, edge.condition_key)
                   result == Compare(value, edge.condition_op, edge.condition_value)
               IN IF result \in {"TypeError", "ValueError"}
                  THEN [exc |-> result, node |-> NONE]
                  ELSE [exc |-> "",
                        node |-> IF result = "true" THEN edge.true_target
                                 ELSE edge.false_target]

\* ------------------------------------------------------------------ tools
\* The operations a host registers.  A tool has the signature
\* tool(state, config) -> updates; it may read or modify state in place,
\* return None or a dict of updates, or raise.
\*   "inc":   return {"n": state.get("n", 0) + 1}  (saturating at MaxInt;
\*            raises TypeError when state["n"] is not a number)
\*   "touch": state["l"].append(1), returning None, when state["l"] is a
\*            list (no longer than MaxInt); otherwise return {"l": []}
\*   "boom":  raise RuntimeError
ToolFuncs == {"inc", "touch", "boom"}

\* ------------------------------------------------------------------ the tools of tools.py
\* The defaults the tools fall back on.
DefaultChunkSize == 80
DefaultPerChunkSummarySize == 30
DefaultMaxSummaryWords == 80

Min(a, b) == IF a <= b THEN a ELSE b
Max(a, b) == IF a >= b THEN a ELSE b

\* str.split(): the words of a string.  A text is held as its words; any
\* other string of the model is one word.
WordsOf(s) == IF s.t = "text" THEN s.items ELSE <<s.v>>

IsStr(x) == x.t \in {"str", "text"}

\* words[:n], n negative included (all but the last -n words).
Slice(ws, n) ==
  IF n >= 0 THEN SubSeq(ws, 1, Min(n, Len(ws)))
  ELSE SubSeq(ws, 1, Max(Len(ws) + n, 0))

\* A variant of the chunking loop that stops before a final chunk shorter
\* than size (range(0, len(words) - size + 1, size)).
RECURSIVE ChunksOfDropsTail(_, _)
ChunksOfDropsTail(ws, size) ==
  IF Len(ws) < size THEN <<>>
  ELSE <<Slice(ws, size)>> \o ChunksOfDropsTail(SubSeq(ws, size + 1, Len(ws)), size)

\* split_text_tool's loop for size > 0: words[i: i + size] for i in
\* range(0, len(words), size), each chunk joined to a string.
RECURSIVE ChunksOf(_, _)
ChunksOf(ws, size) ==
  IF ws = <<>> THEN <<>>
  ELSE <<Slice(ws, size)>> \o ChunksOf(SubSeq(ws, Min(size, Len(ws)) + 1, Len(ws)), size)

\* " ".join(strings), as the words of the result.
RECURSIVE JoinAll(_)
JoinAll(strings) ==
  IF strings = <<>> THEN <<>> ELSE Head(strings) \o JoinAll(Tail(strings))

\* A variant of the lookup in which the node's config comes before the
\* state (config.get(key, state.get(key, default))).
SettingConfigFirst(d, config, key, default) ==
  IF key \in DOMAIN config THEN config[key]
  ELSE IF key \in DOMAIN d THEN d[key]
  ELSE VInt(default)

\* state.get(key, config.get(key, default))
Setting(d, config, key, default) ==
  IF key \in DOMAIN d THEN d[key]
  ELSE IF key \in DOMAIN config THEN config[key]
  ELSE VInt(default)

\* What a tool call does: it returns updates, or raises.
Returns(h, updates) == [exc |-> "", heap |-> h, updates |-> updates]
ToolRaises(exc, h) == [exc |-> exc, heap |-> h, updates |-> EmptyDict]

\* A new list object bound to key in the returned updates.
ReturnsList(h, key, xs) ==
  Returns(Append(h, ListObj(xs)), (key :> VRef(Len(h) + 1)))

\* The list of strings state.get(key, []) yields: found is FALSE when the
\* value is not a list.
StringsAt(h, d, key) ==
  IF key \notin DOMAIN d THEN [found |-> TRUE, items |-> <<>>]
  ELSE IF d[key].t = "ref" THEN [found |-> TRUE, items |-> h[d[key].v].items]
  ELSE [found |-> FALSE, items |-> <<>>]

SplitTextTool(h, sref, config) ==
  LET d == h[sref].d
      text == IF "text" \in DOMAIN d THEN d["text"] ELSE VText(<<>>)
      chunk_size == Setting(d, config, "chunk_size", DefaultChunkSize)
  IN IF ~IsStr(text) THEN ToolRaises("AttributeError", h)
     ELSE IF chunk_size.t # "int" THEN ToolRaises("TypeError", h)
     ELSE IF chunk_size.v = 0 THEN ToolRaises("ValueError", h)
     ELSE ReturnsList(h, "chunks",
                      IF chunk_size.v < 0 THEN <<>>
                      ELSE ChunksOf(WordsOf(text), chunk_size.v))

SummarizeChunksTool(h, sref, config) ==
  LET d == h[sref].d
      chunks == StringsAt(h, d, "chunks")
      size == Setting(d, config, "per_chunk_summary_size", DefaultPerChunkSummarySize)
  IN IF ~chunks.found THEN ToolRaises("TypeError", h)
     ELSE IF chunks.items # <<>> /\ size.t # "int" THEN ToolRaises("TypeError", h)
     ELSE ReturnsList(h, "chunk_summaries",
                      [i \in 1..Len(chunks.items) |-> Slice(chunks.items[i], size.v)])

MergeSummariesTool(h, sref, config) ==
  LET chunk_summaries == StringsAt(h, h[sref].d, "chunk_summaries")
  IN IF ~chunk_summaries.found THEN ToolRaises("TypeError", h)
     ELSE Returns(h, ("summary" :> VText(JoinAll(chunk_summaries.items))))

RefineSummaryTool(h, sref, config) ==
  LET d == h[sref].d
      summary == IF "summary" \in DOMAIN d THEN d["summary"] ELSE VText(<<>>)
      max_words == Setting(d, config, "max_summary_words", DefaultMaxSummaryWords)
  IN IF ~IsStr(summary) THEN ToolRaises("AttributeError", h)
     ELSE IF max_words.t # "int" THEN ToolRaises("TypeError", h)
     ELSE IF Len(WordsOf(summary)) <= max_words.v THEN Returns(h, EmptyDict)
     ELSE Returns(h, ("summary" :> VText(Slice(WordsOf(summary), max_words.v))))

EvaluateSummaryTool(h, sref, config) ==
  LET d == h[sref].d
      summary == IF "summary" \in DOMAIN d THEN d["summary"] ELSE VText(<<>>)
  IN IF ~IsStr(summary) THEN ToolRaises("AttributeError", h)
     ELSE Returns(h, ("summary_length" :> VInt(Len(WordsOf(summary)))))

\* register_default_tools: the registry main.py's engine works with.
DefaultTools ==
  [name \in {"split_text", "summarize_chunks", "merge_summaries",
             "refine_summary", "evaluate_summary"} |->
     CASE name = "split_text" -> "split_text_tool"
       [] name = "summarize_chunks" -> "summarize_chunks_tool"
       [] name = "merge_summaries" -> "merge_summaries_tool"
       [] name = "refine_summary" -> "refine_summary_tool"
       [] name = "evaluate_summary" -> "evaluate_summary_tool"]

\* One invocation tool(state, config) on the heap h, state being the dict
\* at sref: [exc |-> "" or the exception raised, heap |-> the heap after the
\* call, updates |-> the returned mapping ({} for None)].
ToolCall(func, h, sref, config) ==
  LET d == h[sref].d
  IN CASE func = "inc" ->
            LET n == DictGet(d, "n")
            IN IF "n" \notin DOMAIN d
               THEN [exc |-> "", heap |-> h, updates |-> ("n" :> VInt(1))]
               ELSE IF n.t = "int"
               THEN [exc |-> "", heap |-> h,
                     updates |-> ("n" :> VInt(IF n.v < MaxInt THEN n.v + 1 ELSE MaxInt))]
               ELSE [exc |-> "TypeError", heap |-> h, updates |-> EmptyDict]
       [] func = "touch" ->
            LET l == DictGet(d, "l")
            IN IF l.t = "ref"
               THEN [exc |-> "",
                     heap |-> IF Len(h[l.v].items) < MaxInt
                              THEN [h EXCEPT ![l.v].items = Append(@, 1)]
                              ELSE h,
                     updates |-> EmptyDict]
               ELSE [exc |-> "",
                     heap |-> Append(h, ListObj(<<>>)),
                     updates |-> ("l" :> VRef(Len(h) + 1))]
       [] func = "split_text_tool" -> SplitTextTool(h, sref, config)
       [] func = "summarize_chunks_tool" -> SummarizeChunksTool(h, sref, config)
       [] func = "merge_summaries_tool" -> MergeSummariesTool(h, sref, config)
       [] func = "refine_summary_tool" -> RefineSummaryTool(h, sref, config)
       [] func = "evaluate_summary_tool" -> EvaluateSummaryTool(h, sref, config)
       [] OTHER -> [exc |-> "RuntimeError", heap |-> h, updates |-> EmptyDict]

\* ------------------------------------------------------------------ state
VARIABLES
  tools,     \* ToolRegistry._tools: name -> registered operation
  graphs,    \* GraphEngine.graphs: graph id -> Graph
  runs,      \* GraphEngine.runs: run id -> Run
  heap,      \* the dicts and lists of the process, by reference
  calls,     \* the run_graph calls: each one's local variables and position
  uuids,     \* the number of ids uuid4() has handed out
  used       \* how many register / caller-mutation steps were taken

vars == <<tools, graphs, runs, heap, calls, uuids, used>>

Calls == 1..MaxCalls

\* StepLog(step_index, node_id, tool, state_snapshot): the snapshot is a
\* reference to the deep copy.
StepLog(step_index, node_id, tool, state_snapshot) ==
  [step_index |-> step_index, node_id |-> node_id, tool |-> tool,
   state_snapshot |-> state_snapshot]

\* Run(id, graph_id, status, current_node, state, log): state is the very
\* dict the loop worked on.
Run(id, graph_id, status, current_node, state, log) ==
  [id |-> id, graph_id |-> graph_id, status |-> status,
   current_node |-> current_node, state |-> state, log |-> log]

\* A call that has not been made yet.  pc: "idle" | "loop" (at the head of
\* the for loop) | "store" (after the loop) | "returned" | "raised".
\* exc and where are the exception a raised call ended with and the call
\* that raised it.  The other fields record, for the properties: merged, the
\* state by value after each step's merge; invoked, the number of tool
\* invocations; ops, the operation each invocation ran; given, the
\* initial_state by value as it was when the call was made.
IdleCall ==
  [pc |-> "idle", graph_id |-> 0, initial_state |-> 0, max_steps |-> 0,
   run_id |-> 0, state |-> 0, logs |-> <<>>, current_node_id |-> NONE,
   status |-> "", step_index |-> 0, exc |-> "", where |-> "",
   merged |-> <<>>,
   invoked |-> 0,
   ops |-> <<>>,
   given |-> EmptyDict]

Init ==
  /\ tools = [k \in {} |-> ""]
  /\ graphs = [k \in {} |-> Graph(0, "", NONE, NodesOf(<<>>), EdgesOf(<<>>))]
  /\ runs = [k \in {} |-> Run(0, 0, "", NONE, 0, <<>>)]
  /\ heap = <<>>
  /\ calls = [c \in Calls |-> IdleCall]
  /\ uuids = 0
  /\ used = [register |-> 0, mutate |-> 0]

\* ------------------------------------------------------------------ inputs
ToolNames == {"t1", "t2"}

NodeLists ==
  { <<>>,
    <<Node("a", "t1", EmptyDict)>>,
    <<Node("a", "t1", EmptyDict), Node("b", "t2", EmptyDict)>>,
    <<Node("a", "t1", EmptyDict), Node("a", "t2", EmptyDict)>> }

\* Edge lists without conditions: no edge, a self-loop, chains, a cycle,
\* an explicit None target, and a list naming the same from_node twice.
LinearEdgeLists ==
  { <<>>,
    <<LinearEdge("a", "a")>>,
    <<LinearEdge("a", "b")>>,
    <<LinearEdge("a", NONE)>>,
    <<LinearEdge("a", "b"), LinearEdge("b", "a")>>,
    <<LinearEdge("a", "b"), LinearEdge("b", NONE)>>,
    <<LinearEdge("a", "b"), LinearEdge("a", NONE)>> }

CondOps == {"gt", "eq", "xx"}
CondValues == {VInt(1), VStr(0)}
CondTargets == {<<"a", NONE>>, <<NONE, "b">>}

CondEdges ==
  {CondEdge("a", "n", op, val, tg[1], tg[2]) :
     op \in CondOps, val \in CondValues, tg \in CondTargets}

\* The arguments of create_graph: every node list with every linear edge
\* list; a conditional edge on a single node; a conditional edge on "a" with
\* "b" leading back to it.
GraphCatalog ==
  {[name |-> "g", start_node |-> "a", nodes_cfg |-> ns, edges_cfg |-> es] :
     ns \in NodeLists, es \in LinearEdgeLists}
  \cup
  {[name |-> "g", start_node |-> "a",
    nodes_cfg |-> <<Node("a", "t1", EmptyDict)>>,
    edges_cfg |-> <<ce>>] : ce \in CondEdges}
  \cup
  {[name |-> "g", start_node |-> "a",
    nodes_cfg |-> <<Node("a", "t1", EmptyDict), Node("b", "t2", EmptyDict)>>,
    edges_cfg |-> <<ce, LinearEdge("b", "a")>>] : ce \in CondEdges}

\* The initial_state mappings a caller passes, by value.
InitialStates ==
  { ("l" :> VList(<<>>)),
    ("n" :> VInt(0)),
    ("n" :> VStr(0)) }

\* ------------------------------------------------------------------ actions
\* No run_graph call is under way.  run_graph is synchronous: a host that
\* makes its calls one at a time does nothing else until the call is over.
Quiescent == \A c \in Calls : calls[c].pc \in {"idle", "returned", "raised"}

\* A variant of register that keeps the operation a name already has
\* (self._tools.setdefault(name, func)).
RegisterKeepsFirst(name, func, overlap) ==
  /\ overlap \/ Quiescent
  /\ used.register < MaxRegisters
  /\ tools' = tools @@ (name :> func)
  /\ used' = [used EXCEPT !.register = @ + 1]
  /\ UNCHANGED <<graphs, runs, heap, calls, uuids>>

\* ToolRegistry.register(name, func)
Register(name, func, overlap) ==
  /\ overlap \/ Quiescent
  /\ used.register < MaxRegisters
  /\ tools' = (name :> func) @@ tools
  /\ used' = [used EXCEPT !.register = @ + 1]
  /\ UNCHANGED <<graphs, runs, heap, calls, uuids>>

\* GraphEngine.create_graph(name, start_node, nodes_cfg, edges_cfg) with
\* arguments of cat, while the Graph Store holds fewer than limit graphs.
CreateGraphUpTo(cat, overlap, limit) ==
  /\ overlap \/ Quiescent
  /\ Cardinality(DOMAIN graphs) < limit
  /\ \E g \in cat :
       LET graph_id == uuids + 1
       IN /\ graphs' = (graph_id :>
                          Graph(graph_id, g.name, g.start_node,
                                NodesOf(g.nodes_cfg), EdgesOf(g.edges_cfg)))
                       @@ graphs
          /\ uuids' = graph_id
  /\ UNCHANGED <<tools, runs, heap, calls, used>>

CreateGraph(cat, overlap) == CreateGraphUpTo(cat, overlap, MaxGraphs)

\* Whether call c may be made now: the calls are made in order, and one at
\* a time unless overlap is allowed.
MayCall(c, overlap) ==
  /\ calls[c].pc = "idle"
  /\ c > 1 =>
       IF overlap THEN calls[c - 1].pc # "idle"
       ELSE calls[c - 1].pc \in {"returned", "raised"}

\* A variant of the unknown-graph path in which the lookup yields nothing
\* instead of raising and the call goes on to record a failed Run.
RunGraphNotFoundRecordsRun(c, overlap) ==
  /\ MayCall(c, overlap)
  /\ \E graph_id \in 0..uuids :
       /\ graph_id \notin DOMAIN graphs
       /\ uuids' = uuids + 1
       /\ runs' = ((uuids + 1) :> Run(uuids + 1, graph_id, "failed", NONE, 0, <<>>))
                  @@ runs
       /\ calls' = [calls EXCEPT ![c] =
                      [@ EXCEPT !.pc = "returned", !.status = "failed",
                                !.run_id = uuids + 1,
                                !.graph_id = graph_id]]
  /\ UNCHANGED <<tools, graphs, heap, used>>

\* run_graph with a graph id the Graph Store does not hold: get_graph
\* raises KeyError, which run_graph lets through.
RunGraphNotFound(c, overlap) ==
  /\ MayCall(c, overlap)
  /\ \E graph_id \in 0..uuids :
       /\ graph_id \notin DOMAIN graphs
       /\ calls' = [calls EXCEPT ![c] =
                      [@ EXCEPT !.pc = "raised", !.exc = "KeyError",
                                !.where = "get_graph",
                                !.graph_id = graph_id]]
  /\ UNCHANGED <<tools, graphs, runs, heap, uuids, used>>

\* A variant of run_graph's entry for an engine that keeps the working
\* state in one place for all its calls: a call that starts while another
\* is in its loop works on that call's state.
EnterOnEngineState(c, graph_id, max_steps, h, iref) ==
  LET copy == ShallowCopy(h, iref)
      busy == {e \in Calls : calls[e].pc = "loop"}
      sref == IF busy = {} THEN copy.ref
              ELSE calls[CHOOSE e \in busy : TRUE].state
  IN /\ heap' = copy.heap
     /\ uuids' = uuids + 1
     /\ calls' = [calls EXCEPT ![c] =
                    [@ EXCEPT !.pc = "loop", !.graph_id = graph_id,
                              !.initial_state = iref,
                              !.max_steps = max_steps,
                              !.run_id = uuids + 1,
                              !.state = sref,
                              !.current_node_id = graphs[graph_id].start_node,
                              !.status = "running",
                              !.given = Resolve(h, iref)]]

\* run_graph from the found graph to the head of the loop, the caller's
\* initial_state being the dict at iref of the heap h: a run id is drawn,
\* the working state is a shallow copy of initial_state, the walk is at the
\* start node with status running.
Enter(c, graph_id, max_steps, h, iref) ==
  LET copy == ShallowCopy(h, iref)
  IN /\ heap' = copy.heap
     /\ uuids' = uuids + 1
     /\ calls' = [calls EXCEPT ![c] =
                    [@ EXCEPT !.pc = "loop", !.graph_id = graph_id,
                              !.initial_state = iref,
                              !.max_steps = max_steps,
                              !.run_id = uuids + 1,
                              !.state = copy.ref,
                              !.current_node_id = graphs[graph_id].start_node,
                              !.status = "running",
                              !.given = Resolve(h, iref)]]

\* run_graph(graph_id, initial_state, max_steps) on a known graph id with a
\* mapping the caller has just built, one of states, and a budget of budgets.
RunGraphBeginWith(c, overlap, states, budgets) ==
  /\ MayCall(c, overlap)
  /\ \E graph_id \in DOMAIN graphs, bv \in states, max_steps \in budgets :
       LET caller == AllocDict(heap, bv)
       IN Enter(c, graph_id, max_steps, caller.heap, caller.ref)
  /\ UNCHANGED <<tools, graphs, runs, used>>

\* run_graph up to the head of the loop: the graph is found, a run id is
\* drawn, the working state is a shallow copy of initial_state.
RunGraphBegin(c, overlap) ==
  RunGraphBeginWith(c, overlap, InitialStates, 0..MaxSteps)

\* The same with the very mapping an earlier call was given: the host
\* passes one initial_state object to two calls.
RunGraphBeginShared(c, overlap, budgets) ==
  /\ MayCall(c, overlap)
  /\ \E graph_id \in DOMAIN graphs, max_steps \in budgets, e \in Calls :
       /\ e < c
       /\ calls[e].initial_state # 0
       /\ Enter(c, graph_id, max_steps, heap, calls[e].initial_state)
  /\ UNCHANGED <<tools, graphs, runs, used>>

\* A variant of the loop's exhaustion without the else clause's verdict:
\* the run that used up its budget is reported completed.
LoopExhaustedCompletes(c) ==
  /\ calls[c].pc = "loop"
  /\ calls[c].step_index = calls[c].max_steps
  /\ calls' = [calls EXCEPT ![c] = [@ EXCEPT !.status = "completed", !.pc = "store"]]
  /\ UNCHANGED <<tools, graphs, runs, heap, uuids, used>>

\* The for loop runs out of range(max_steps): its else clause.
LoopExhausted(c) ==
  /\ calls[c].pc = "loop"
  /\ calls[c].step_index = calls[c].max_steps
  /\ calls' = [calls EXCEPT ![c] = [@ EXCEPT !.status = "failed", !.pc = "store"]]
  /\ UNCHANGED <<tools, graphs, runs, heap, uuids, used>>

\* A variant of the None test that breaks without assigning the status:
\* the Run keeps the initial value running.
LoopCompletedStaysRunning(c) ==
  /\ calls[c].pc = "loop"
  /\ calls[c].step_index < calls[c].max_steps
  /\ calls[c].current_node_id = NONE
  /\ calls' = [calls EXCEPT ![c] = [@ EXCEPT !.pc = "store"]]
  /\ UNCHANGED <<tools, graphs, runs, heap, uuids, used>>

\* current_node_id is None: completed, break.
LoopCompleted(c) ==
  /\ calls[c].pc = "loop"
  /\ calls[c].step_index < calls[c].max_steps
  /\ calls[c].current_node_id = NONE
  /\ calls' = [calls EXCEPT ![c] = [@ EXCEPT !.status = "completed", !.pc = "store"]]
  /\ UNCHANGED <<tools, graphs, runs, heap, uuids, used>>

\* A variant of the missing-node test that treats a missing node like the
\* end of the path: completed, current node cleared.
LoopUnknownNodeCompletes(c) ==
  /\ calls[c].pc = "loop"
  /\ calls[c].step_index < calls[c].max_steps
  /\ calls[c].current_node_id # NONE
  /\ calls[c].current_node_id \notin DOMAIN graphs[calls[c].graph_id].nodes
  /\ calls' = [calls EXCEPT ![c] =
                 [@ EXCEPT !.status = "completed", !.current_node_id = NONE,
                           !.pc = "store"]]
  /\ UNCHANGED <<tools, graphs, runs, heap, uuids, used>>

\* graph.nodes.get(current_node_id) is None: failed, break.
LoopUnknownNode(c) ==
  /\ calls[c].pc = "loop"
  /\ calls[c].step_index < calls[c].max_steps
  /\ calls[c].current_node_id # NONE
  /\ calls[c].current_node_id \notin DOMAIN graphs[calls[c].graph_id].nodes
  /\ calls' = [calls EXCEPT ![c] = [@ EXCEPT !.status = "failed", !.pc = "store"]]
  /\ UNCHANGED <<tools, graphs, runs, heap, uuids, used>>

\* A variant of the loop's range that permits one iteration more
\* (range(max_steps + 1)).
AtNodeOneMore(c) ==
  /\ calls[c].pc = "loop"
  /\ calls[c].step_index <= calls[c].max_steps
  /\ calls[c].current_node_id # NONE
  /\ calls[c].current_node_id \in DOMAIN graphs[calls[c].graph_id].nodes

\* The loop body can run: the current node is a node of the graph.
AtNode(c) ==
  /\ calls[c].pc = "loop"
  /\ calls[c].step_index < calls[c].max_steps
  /\ calls[c].current_node_id # NONE
  /\ calls[c].current_node_id \in DOMAIN graphs[calls[c].graph_id].nodes

CurrentNode(c) == graphs[calls[c].graph_id].nodes[calls[c].current_node_id]

\* state.update(updates) on the dict at sref.
Merge(h, sref, updates) == [h EXCEPT ![sref].d = DictUpdate(@, updates)]

\* A variant of the loop body that numbers the steps from 1.
BodyOneBased(c) ==
  LET f == calls[c]
      node == CurrentNode(c)
      call == ToolCall(tools[node.tool], heap, f.state, node.config)
      h1 == Merge(call.heap, f.state, call.updates)
      snap == DeepCopy(h1, f.state)
      entry == StepLog(f.step_index + 1, node.id, node.tool, snap.ref)
      nxt == NextNodeId(graphs[f.graph_id], f.current_node_id, snap.heap[f.state].d)
  IN [call |-> call, heap |-> snap.heap, entry |-> entry, nxt |-> nxt,
      merged |-> Resolve(h1, f.state), op |-> tools[node.tool]]

\* A variant of the loop body that resolves the next node on the state as
\* it was before the tool ran.
BodyRoutesOnStaleState(c) ==
  LET f == calls[c]
      node == CurrentNode(c)
      call == ToolCall(tools[node.tool], heap, f.state, node.config)
      h1 == Merge(call.heap, f.state, call.updates)
      snap == DeepCopy(h1, f.state)
      entry == StepLog(f.step_index, node.id, node.tool, snap.ref)
      nxt == NextNodeId(graphs[f.graph_id], f.current_node_id, heap[f.state].d)
  IN [call |-> call, heap |-> snap.heap, entry |-> entry, nxt |-> nxt,
      merged |-> Resolve(h1, f.state), op |-> tools[node.tool]]

\* One pass through the loop body at a node whose tool is registered:
\* the tool call, the merge, the StepLog with its snapshot, the next node.
Body(c) ==
  LET f == calls[c]
      node == CurrentNode(c)
      call == ToolCall(tools[node.tool], heap, f.state, node.config)
      h1 == Merge(call.heap, f.state, call.updates)
      snap == DeepCopy(h1, f.state)
      entry == StepLog(f.step_index, node.id, node.tool, snap.ref)
      nxt == NextNodeId(graphs[f.graph_id], f.current_node_id, snap.heap[f.state].d)
  IN [call |-> call, heap |-> snap.heap, entry |-> entry, nxt |-> nxt,
      merged |-> Resolve(h1, f.state), op |-> tools[node.tool]]

\* self.tool_registry.get(node.tool) raises KeyError: nothing catches it,
\* run_graph raises and no Run is built.
LoopToolMissing(c) ==
  /\ AtNode(c)
  /\ CurrentNode(c).tool \notin DOMAIN tools
  /\ calls' = [calls EXCEPT ![c] =
                 [@ EXCEPT !.pc = "raised", !.exc = "KeyError",
                           !.where = "tool_registry.get"]]
  /\ UNCHANGED <<tools, graphs, runs, heap, uuids, used>>

\* The tool raises: nothing catches it, run_graph raises.
LoopToolRaises(c) ==
  /\ AtNode(c)
  /\ CurrentNode(c).tool \in DOMAIN tools
  /\ Body(c).call.exc # ""
  /\ heap' = Body(c).call.heap
  /\ calls' = [calls EXCEPT ![c] =
                 [@ EXCEPT !.pc = "raised", !.exc = Body(c).call.exc,
                           !.where = "tool",
                           !.invoked = @ + 1,
                           !.ops = Append(@, Body(c).op)]]
  /\ UNCHANGED <<tools, graphs, runs, uuids, used>>

\* The step is logged and then _compare raises inside _next_node_id:
\* nothing catches it, run_graph raises.
LoopCompareRaises(c) ==
  /\ AtNode(c)
  /\ CurrentNode(c).tool \in DOMAIN tools
  /\ Body(c).call.exc = ""
  /\ Body(c).nxt.exc # ""
  /\ heap' = Body(c).heap
  /\ calls' = [calls EXCEPT ![c] =
                 [@ EXCEPT !.pc = "raised", !.exc = Body(c).nxt.exc,
                           !.where = "_compare",
                           !.logs = Append(@, Body(c).entry),
                           !.merged = Append(@, Body(c).merged),
                           !.invoked = @ + 1,
                           !.ops = Append(@, Body(c).op)]]
  /\ UNCHANGED <<tools, graphs, runs, uuids, used>>

\* A whole pass: tool, merge, log, next node; back to the head of the loop
\* with the next step_index.
LoopStep(c) ==
  /\ AtNode(c)
  /\ CurrentNode(c).tool \in DOMAIN tools
  /\ Body(c).call.exc = ""
  /\ Body(c).nxt.exc = ""
  /\ heap' = Body(c).heap
  /\ calls' = [calls EXCEPT ![c] =
                 [@ EXCEPT !.logs = Append(@, Body(c).entry),
                           !.merged = Append(@, Body(c).merged),
                           !.invoked = @ + 1,
                           !.ops = Append(@, Body(c).op),
                           !.current_node_id = Body(c).nxt.node,
                           !.step_index = @ + 1]]
  /\ UNCHANGED <<tools, graphs, runs, uuids, used>>

\* A variant of the store that keys the Run Store by the graph's id
\* (self.runs[graph_id] = run): a later run of the graph replaces the Run.
StoreRunUnderGraphId(c) ==
  /\ calls[c].pc = "store"
  /\ runs' = (calls[c].graph_id :>
                Run(calls[c].run_id, calls[c].graph_id, calls[c].status,
                    calls[c].current_node_id, calls[c].state, calls[c].logs))
             @@ runs
  /\ calls' = [calls EXCEPT ![c] = [@ EXCEPT !.pc = "returned"]]
  /\ UNCHANGED <<tools, graphs, heap, uuids, used>>

\* After the loop: the Run is built, stored under its id and returned.
StoreRun(c) ==
  /\ calls[c].pc = "store"
  /\ runs' = (calls[c].run_id :>
                Run(calls[c].run_id, calls[c].graph_id, calls[c].status,
                    calls[c].current_node_id, calls[c].state, calls[c].logs))
             @@ runs
  /\ calls' = [calls EXCEPT ![c] = [@ EXCEPT !.pc = "returned"]]
  /\ UNCHANGED <<tools, graphs, heap, uuids, used>>

\* The caller of a returned run mutates run.state: it rebinds the key "n"
\* and appends to every list the mapping holds.
CallerMutates(c) ==
  /\ Quiescent
  /\ calls[c].pc = "returned"
  /\ used.mutate < MaxMutations
  /\ LET sref == calls[c].state
         rs == RefsOf(heap[sref].d)
     IN heap' = [i \in 1..Len(heap) |->
                   IF i = sref
                   THEN DictObj(("n" :> VInt(MaxInt)) @@ heap[i].d)
                   ELSE IF i \in rs
                   THEN ListObj(Append(heap[i].items, 2))
                   ELSE heap[i]]
  /\ used' = [used EXCEPT !.mutate = @ + 1]
  /\ UNCHANGED <<tools, graphs, runs, calls, uuids>>

\* GraphEngine.get_graph / GraphEngine.get_run: the record, or KeyError.
GetGraph(graph_id) ==
  IF graph_id \in DOMAIN graphs
  THEN [exc |-> "", graph |-> graphs[graph_id]]
  ELSE [exc |-> "KeyError", graph |-> Graph(0, "", NONE, NodesOf(<<>>), EdgesOf(<<>>))]

GetRun(run_id) ==
  IF run_id \in DOMAIN runs
  THEN [exc |-> "", run |-> runs[run_id]]
  ELSE [exc |-> "KeyError", run |-> Run(0, 0, "", NONE, 0, <<>>)]

\* ------------------------------------------------------------------ specification
RunGraph(c, overlap) ==
  \/ RunGraphNotFound(c, overlap)
  \/ RunGraphBegin(c, overlap)
  \/ LoopExhausted(c)
  \/ LoopCompleted(c)
  \/ LoopUnknownNode(c)
  \/ LoopToolMissing(c)
  \/ LoopToolRaises(c)
  \/ LoopCompareRaises(c)
  \/ LoopStep(c)
  \/ StoreRun(c)

Next ==
  \/ \E name \in ToolNames, func \in ToolFuncs : Register(name, func, FALSE)
  \/ CreateGraph(GraphCatalog, FALSE)
  \/ \E c \in Calls : RunGraph(c, FALSE)
  \/ \E c \in Calls : CallerMutates(c)

Spec == Init /\ [][Next]_vars

\* ------------------------------------------------------------------ properties
Finished(c) == calls[c].pc \in {"returned", "raised"}

\* The call returned a Run with this status, and the Run Store holds it
\* under the call's run id with the call's log, state and current node.
ReturnedRun(c, status) ==
  /\ calls[c].pc = "returned"
  /\ calls[c].status = status
  /\ GetRun(calls[c].run_id).exc = ""
  /\ GetRun(calls[c].run_id).run =
       Run(calls[c].run_id, calls[c].graph_id, status,
           calls[c].current_node_id, calls[c].state, calls[c].logs)

\* C1: when run_graph on a known graph reaches a node whose tool is not
\* registered, the lookup failure is caught in the step loop: the call does
\* not raise, it returns a Run with status failed that the Run Store holds,
\* whose log holds the steps executed before the failing node.
C1_LookupFailureIsFailedRun ==
  \A c \in Calls :
    calls[c].where = "tool_registry.get" =>
      /\ calls[c].pc # "raised"
      /\ Finished(c) =>
           /\ ReturnedRun(c, "failed")
           /\ Len(calls[c].logs) = calls[c].step_index

\* C2: when a conditional edge's comparison fails (an ordering operator on a
\* missing key or on a type-incomparable pair), the call does not raise: it
\* returns a Run with status failed.
C2_CompareFailureIsFailedRun ==
  \A c \in Calls :
    (calls[c].where = "_compare" /\ calls[c].exc = "TypeError") =>
      /\ calls[c].pc # "raised"
      /\ Finished(c) => ReturnedRun(c, "failed")

\* C3: a run_graph call on a known graph id stores a Run also when the run
\* fails: when the tool invoked at step i raises, the call returns (does
\* not raise) a Run with status failed whose log holds exactly the i steps
\* completed before, and get_run on its id returns that record.
C3_ToolErrorIsFailedRun ==
  \A c \in Calls :
    calls[c].where = "tool" =>
      /\ calls[c].pc # "raised"
      /\ Finished(c) =>
           /\ ReturnedRun(c, "failed")
           /\ Len(calls[c].logs) = calls[c].step_index

\* C4: run_graph with a graph id that is not in the Graph Store raises
\* KeyError (NotFound) to the caller; the step that does so leaves the Run
\* Store, the heap and the id counter as they were; the call has drawn no
\* run id, invoked no tool and logged no step.
C4_UnknownGraphRaisesNotFound ==
  /\ [](\A c \in Calls :
          (calls[c].pc # "idle" /\ calls[c].graph_id \notin DOMAIN graphs) =>
            /\ calls[c].pc = "raised"
            /\ calls[c].exc = "KeyError"
            /\ calls[c].where = "get_graph"
            /\ calls[c].run_id = 0
            /\ calls[c].invoked = 0
            /\ calls[c].logs = <<>>)
  /\ [][\A c \in Calls :
          (calls[c].pc = "idle" /\ calls'[c].pc # "idle"
             /\ calls'[c].graph_id \notin DOMAIN graphs) =>
            (runs' = runs /\ heap' = heap /\ uuids' = uuids)]_vars

\* A call on an unknown graph id has raised while the Run Store holds the
\* Run of an earlier call.
C4_Witness ==
  \E c \in Calls :
    /\ calls[c].where = "get_graph"
    /\ calls[c].pc = "raised"
    /\ DOMAIN runs # {}

\* The graph of a call on a known graph id.
GraphOf(c) == graphs[calls[c].graph_id]

KnownGraph(c) == calls[c].pc # "idle" /\ calls[c].graph_id \in DOMAIN graphs

\* No tool lookup and no tool invocation of the call has failed.
ToolsWorked(c) == calls[c].where \notin {"tool_registry.get", "tool"}

\* Whether the edge is followed without a comparison (_next_node_id's test).
IsLinear(edge) == edge.condition_key = NONE \/ edge.condition_op = NONE

\* C5 (for max_steps >= 1; with max_steps = 0 the loop body never runs):
\* on a graph whose start node has no edge, a call whose tool worked yields
\* a Run with status completed, a log of length exactly 1 and current_node
\* None.
C5_NoEdgeOnStartCompletes ==
  \A c \in Calls :
    ( /\ Finished(c) /\ KnownGraph(c) /\ ToolsWorked(c)
      /\ calls[c].max_steps >= 1
      /\ GraphOf(c).start_node \in DOMAIN GraphOf(c).nodes
      /\ GraphOf(c).start_node \notin DOMAIN GraphOf(c).edges ) =>
      /\ ReturnedRun(c, "completed")
      /\ Len(calls[c].logs) = 1
      /\ calls[c].current_node_id = NONE

\* C6: every Run whose current_node is None has status completed: a path
\* that ends is never reported as failed.
C6_NoneNodeMeansCompleted ==
  \A rid \in DOMAIN runs :
    runs[rid].current_node = NONE => runs[rid].status = "completed"

\* The nodes of the pure linear chain that starts at node, in order; the
\* sequence holds "!" when the walk meets a condition, a missing node or a
\* node it has already seen.
RECURSIVE ChainFrom(_, _, _)
ChainFrom(graph, node, seen) ==
  IF node \notin DOMAIN graph.nodes \/ node \in seen THEN <<"!">>
  ELSE IF node \notin DOMAIN graph.edges THEN <<node>>
  ELSE LET edge == graph.edges[node]
       IN IF edge.condition_key # NONE \/ edge.condition_op # NONE THEN <<"!">>
          ELSE IF edge.to_node = NONE THEN <<node>>
          ELSE <<node>> \o ChainFrom(graph, edge.to_node, seen \cup {node})

Chain(graph) == ChainFrom(graph, graph.start_node, {})

IsChain(graph) == \A i \in 1..Len(Chain(graph)) : Chain(graph)[i] # "!"

\* C7: on a pure linear chain of k nodes with unconditional edges and
\* k < max_steps, a call whose tools worked yields status completed and a
\* log of exactly k entries, with step_index 0..k-1 in order and the
\* chain's nodes in order.
C7_LinearChainCompletes ==
  \A c \in Calls :
    ( /\ Finished(c) /\ KnownGraph(c) /\ ToolsWorked(c)
      /\ IsChain(GraphOf(c))
      /\ Len(Chain(GraphOf(c))) < calls[c].max_steps ) =>
      /\ ReturnedRun(c, "completed")
      /\ Len(calls[c].logs) = Len(Chain(GraphOf(c)))
      /\ \A i \in 1..Len(calls[c].logs) :
           /\ calls[c].logs[i].step_index = i - 1
           /\ calls[c].logs[i].node_id = Chain(GraphOf(c))[i]

\* A call on a chain of two nodes has returned.
C7_Witness ==
  \E c \in Calls :
    /\ calls[c].pc = "returned" /\ KnownGraph(c)
    /\ IsChain(GraphOf(c))
    /\ Len(Chain(GraphOf(c))) = 2
    /\ Len(Chain(GraphOf(c))) < calls[c].max_steps
    /\ Len(calls[c].logs) = 2

\* The start node leads to itself and no state of the run changed that:
\* its edge is unconditional with the node as target, or conditional and
\* the resolver chose the node on the state after every step of the run.
SelfLoop(c) ==
  LET g == GraphOf(c)
      s == g.start_node
  IN /\ s \in DOMAIN g.nodes
     /\ s \in DOMAIN g.edges
     /\ IF IsLinear(g.edges[s])
        THEN g.edges[s].to_node = s
        ELSE \A i \in 1..Len(calls[c].merged) :
               NextNodeId(g, s, calls[c].merged[i]) = [exc |-> "", node |-> s]

\* C8: on a node that loops to itself with a guard the state never
\* changes, a call with max_steps = N whose tool worked ends with status
\* failed and a log of exactly N entries, for every N >= 0.
C8_SelfLoopExhaustsBudget ==
  \A c \in Calls :
    ( /\ Finished(c) /\ KnownGraph(c) /\ ToolsWorked(c)
      /\ SelfLoop(c) ) =>
      /\ ReturnedRun(c, "failed")
      /\ Len(calls[c].logs) = calls[c].max_steps

\* A call on a conditional self-loop has returned after max_steps >= 2
\* passes, each of which chose the node again.
C8_Witness ==
  \E c \in Calls :
    /\ calls[c].pc = "returned" /\ KnownGraph(c)
    /\ SelfLoop(c)
    /\ ~IsLinear(GraphOf(c).edges[GraphOf(c).start_node])
    /\ calls[c].max_steps >= 2
    /\ Len(calls[c].logs) = calls[c].max_steps

\* The target the start node's edge leads to: the unconditional edge's
\* to_node, or the branch the resolver chose on the state after the start
\* node's step (None when there is no edge, no such step, or no choice).
StartTarget(c) ==
  LET g == GraphOf(c)
      s == g.start_node
  IN IF s \notin DOMAIN g.edges THEN NONE
     ELSE IF IsLinear(g.edges[s]) THEN g.edges[s].to_node
     ELSE IF calls[c].merged = <<>> THEN NONE
     ELSE NextNodeId(g, s, calls[c].merged[1]).node

\* The start node is a node of the graph and its edge leads to an id that
\* is not one.
DanglingStart(c) ==
  /\ GraphOf(c).start_node \in DOMAIN GraphOf(c).nodes
  /\ StartTarget(c) # NONE
  /\ StartTarget(c) \notin DOMAIN GraphOf(c).nodes

DanglingOutcome(c) ==
  /\ ReturnedRun(c, "failed")
  /\ calls[c].current_node_id = StartTarget(c)
  /\ Len(calls[c].logs) = 1
  /\ calls[c].logs[1].node_id = GraphOf(c).start_node

\* C9 as stated: on a graph whose start node has an edge to an id that is
\* not in nodes, the Run has status failed, current_node is that id and
\* the log holds only the start node's step.
C9_DanglingTargetFails_AsStated ==
  \A c \in Calls :
    (Finished(c) /\ KnownGraph(c) /\ ToolsWorked(c) /\ DanglingStart(c)) =>
      DanglingOutcome(c)

\* C9 as amended: the same for max_steps >= 1.  With max_steps = 0 no step
\* runs: the Run is failed with an empty log and current_node the start
\* node.
C9_DanglingTargetFails ==
  \A c \in Calls :
    ( /\ Finished(c) /\ KnownGraph(c) /\ ToolsWorked(c) /\ DanglingStart(c)
      /\ calls[c].max_steps >= 1 ) =>
      DanglingOutcome(c)

\* A call with max_steps >= 2 has returned from a graph whose start node
\* leads to a missing id: the loop met the missing node and broke.
C9_Witness ==
  \E c \in Calls :
    /\ calls[c].pc = "returned" /\ KnownGraph(c)
    /\ DanglingStart(c)
    /\ calls[c].max_steps >= 2
    /\ calls[c].current_node_id = StartTarget(c)

\* C10: the state_snapshot of every log entry, read now, is the state as
\* it was right after that step's merge, whatever later tool calls, merges
\* and mutations of the returned Run's state have done since; the same for
\* the logs of the Runs in the Run Store.
C10_SnapshotsAreIndependent ==
  \A c \in Calls :
    /\ Len(calls[c].merged) = Len(calls[c].logs)
    /\ \A i \in 1..Len(calls[c].logs) :
         Resolve(heap, calls[c].logs[i].state_snapshot) = calls[c].merged[i]
    /\ calls[c].pc = "returned" =>
         /\ calls[c].run_id \in DOMAIN runs
         /\ \A i \in 1..Len(runs[calls[c].run_id].log) :
              Resolve(heap, runs[calls[c].run_id].log[i].state_snapshot)
                = calls[c].merged[i]

\* A returned run whose second step changed, in place, the list its first
\* snapshot was taken of, and whose state the caller has mutated since.
C10_Witness ==
  \E c \in Calls :
    /\ calls[c].pc = "returned"
    /\ Len(calls[c].logs) >= 2
    /\ "l" \in DOMAIN calls[c].merged[1]
    /\ calls[c].merged[1]["l"].t = "list"
    /\ calls[c].merged[2]["l"] # calls[c].merged[1]["l"]
    /\ Resolve(heap, calls[c].state) # calls[c].merged[Len(calls[c].logs)]

\* ------------------------------------------------------------------ routing
\* The conditional edges of one node "a" on the key "n": every operator of
\* _compare, an int and two strings to compare with, each branch none or a
\* node or a missing node.
RouteOps == {"gt", "ge", "lt", "le", "eq", "ne"}
RouteValues == {VInt(2), VStr(0), VStr(1)}
RouteTargets == {<<"a", NONE>>, <<NONE, "a">>, <<"b", NONE>>}

RouteCatalog ==
  {[name |-> "r", start_node |-> "a",
    nodes_cfg |-> <<Node("a", "t1", EmptyDict)>>,
    edges_cfg |-> <<CondEdge("a", "n", op, val, tg[1], tg[2])>>] :
     op \in RouteOps, val \in RouteValues, tg \in RouteTargets}

\* The initial states: "n" below, at and above the int compared with, a
\* string, and no "n" at all.
RouteStates ==
  { ("n" :> VInt(0)), ("n" :> VInt(1)), ("n" :> VInt(2)),
    ("n" :> VStr(0)), ("n" :> VStr(1)), ("l" :> VList(<<>>)) }

\* One run_graph call at a time on a graph of RouteCatalog.
RouteNext ==
  \/ \E func \in ToolFuncs : Register("t1", func, FALSE)
  \/ CreateGraph(RouteCatalog, FALSE)
  \/ RunGraphNotFound(1, FALSE)
  \/ RunGraphBeginWith(1, FALSE, RouteStates, 0..MaxSteps)
  \/ LoopExhausted(1)
  \/ LoopCompleted(1)
  \/ LoopUnknownNode(1)
  \/ LoopToolMissing(1)
  \/ LoopToolRaises(1)
  \/ LoopCompareRaises(1)
  \/ LoopStep(1)
  \/ StoreRun(1)

SpecRoute == Init /\ [][RouteNext]_vars

\* The operator table as documented: gt >, ge >=, lt <, le <=, eq ==, ne !=.
Holds(lhs, op, rhs) ==
  CASE op = "gt" -> lhs.v > rhs.v
    [] op = "ge" -> lhs.v >= rhs.v
    [] op = "lt" -> lhs.v < rhs.v
    [] op = "le" -> lhs.v <= rhs.v
    [] op = "eq" -> lhs = rhs
    [] op = "ne" -> lhs # rhs

\* The pair can be compared under op: == and != compare anything, the
\* ordering operators two ints or two strings.
Comparable(lhs, op, rhs) ==
  op \in {"eq", "ne"} \/ (lhs.t = rhs.t /\ lhs.t \in {"int", "str"})

\* The node the walk went to after its i-th step.
Successor(c, i) ==
  IF i < Len(calls[c].logs) THEN calls[c].logs[i + 1].node_id
  ELSE calls[c].current_node_id

\* The edge the i-th step of call c left its node by, the value it read
\* and the target the operator table chooses.
EdgeAt(c, i) == GraphOf(c).edges[calls[c].logs[i].node_id]

LhsAt(c, i) == DictGet(calls[c].merged[i], EdgeAt(c, i).condition_key)

ChosenAt(c, i) ==
  IF Holds(LhsAt(c, i), EdgeAt(c, i).condition_op, EdgeAt(c, i).condition_value)
  THEN EdgeAt(c, i).true_target
  ELSE EdgeAt(c, i).false_target

\* The i-th step of call c left its node by a conditional edge with an
\* operator of the table on a comparable pair.
RoutedAt(c, i) ==
  /\ calls[c].logs[i].node_id \in DOMAIN GraphOf(c).edges
  /\ ~IsLinear(EdgeAt(c, i))
  /\ EdgeAt(c, i).condition_op \in RouteOps
  /\ Comparable(LhsAt(c, i), EdgeAt(c, i).condition_op, EdgeAt(c, i).condition_value)

\* Every such step was resolved without an error, to the target the table
\* chooses.
RoutedByTable ==
  \A c \in Calls : \A i \in 1..Len(calls[c].logs) :
    RoutedAt(c, i) =>
      /\ ~(i = Len(calls[c].logs) /\ calls[c].where = "_compare")
      /\ Successor(c, i) = ChosenAt(c, i)

\* C11: a conditional edge sends the walk to true_target exactly when
\* state[condition_key] <op> condition_value holds under the operator
\* table, and to false_target otherwise, for each of the six operators and
\* every comparable pair; and when the chosen target is none, the run ends
\* as completed.
C11_ConditionalRouting ==
  /\ RoutedByTable
  /\ \A c \in Calls :
       ( /\ Finished(c) /\ KnownGraph(c) /\ ToolsWorked(c)
         /\ calls[c].logs # <<>>
         /\ RoutedAt(c, Len(calls[c].logs))
         /\ ChosenAt(c, Len(calls[c].logs)) = NONE ) =>
         ReturnedRun(c, "completed")

\* ------------------------------------------------------------------ status
Terminal == {"completed", "failed"}

\* C12: the status of a run is a one-way state machine.  A call's status is
\* running from its entry to the end of its loop, where it is assigned
\* completed or failed once; every Run that is stored or returned has
\* status completed or failed, never running, for every max_steps >= 0; no
\* step changes a status that is terminal, in the call or in the Run Store.
C12_StatusIsOneWay ==
  /\ [](\A rid \in DOMAIN runs : runs[rid].status \in Terminal)
  /\ [](\A c \in Calls :
          /\ calls[c].pc = "loop" => calls[c].status = "running"
          /\ calls[c].pc \in {"store", "returned"} => calls[c].status \in Terminal
          /\ calls[c].pc = "returned" =>
               /\ calls[c].run_id \in DOMAIN runs
               /\ runs[calls[c].run_id].status = calls[c].status)
  /\ [][\A c \in Calls :
          calls'[c].status # calls[c].status =>
            \/ calls[c].status = "" /\ calls'[c].status = "running"
            \/ calls[c].status = "running" /\ calls'[c].status \in Terminal]_vars
  /\ [][\A rid \in DOMAIN runs :
          rid \in DOMAIN runs' /\ runs'[rid].status = runs[rid].status]_vars

\* The Run Store holds a completed Run and a failed Run of max_steps = 0,
\* and the caller has mutated a returned Run's state since.
C12_Witness ==
  /\ \E c \in Calls : ReturnedRun(c, "completed")
  /\ \E c \in Calls : ReturnedRun(c, "failed") /\ calls[c].max_steps = 0
  /\ used.mutate > 0

\* ------------------------------------------------------------------ concurrent calls
\* The host of main.py registers its tools when it starts, before any
\* run_graph call is made.
RegisterAtStartup(name, func) ==
  /\ \A c \in Calls : calls[c].pc = "idle"
  /\ Register(name, func, TRUE)

\* One node "a" bound to t1: looping to itself, without an edge, leading to
\* a missing node, and looping until "n" exceeds 1.
ConcCatalog ==
  {[name |-> "c", start_node |-> "a",
    nodes_cfg |-> <<Node("a", "t1", EmptyDict)>>,
    edges_cfg |-> es] :
     es \in { <<LinearEdge("a", "a")>>,
              <<>>,
              <<LinearEdge("a", "b")>>,
              <<CondEdge("a", "n", "gt", VInt(1), NONE, "a")>> }}

ConcStates == { ("l" :> VList(<<>>)), ("n" :> VInt(0)) }

ConcBudgets == 1..2

\* Two run_graph calls whose steps interleave in every way, on the same or
\* on different graphs, each with a mapping of its own or both with one
\* mapping.
ConcNext ==
  \/ \E func \in ToolFuncs : RegisterAtStartup("t1", func)
  \/ CreateGraphUpTo(ConcCatalog, FALSE, MaxGraphs + 1)
  \/ \E c \in Calls : RunGraphNotFound(c, TRUE)
  \/ \E c \in Calls : RunGraphBeginWith(c, TRUE, ConcStates, ConcBudgets)
  \/ \E c \in Calls : RunGraphBeginShared(c, TRUE, ConcBudgets)
  \/ \E c \in Calls : LoopExhausted(c)
  \/ \E c \in Calls : LoopCompleted(c)
  \/ \E c \in Calls : LoopUnknownNode(c)
  \/ \E c \in Calls : LoopToolMissing(c)
  \/ \E c \in Calls : LoopToolRaises(c)
  \/ \E c \in Calls : LoopCompareRaises(c)
  \/ \E c \in Calls : LoopStep(c)
  \/ \E c \in Calls : StoreRun(c)

SpecConcurrent == Init /\ [][ConcNext]_vars

\* What a caller gets from a run_graph call and reads in it: the exception
\* raised, or the Run's status, current node, state and log, by value.
Outcome(exc, status, current_node, state, log) ==
  [exc |-> exc, status |-> status, current_node |-> current_node,
   state |-> state, log |-> log]

Raises(exc) == Outcome(exc, "", NONE, EmptyDict, <<>>)

\* run_graph's loop run from step to its end with nothing else going on,
\* on a heap h of its own, the state being the dict at sref.
RECURSIVE AloneFrom(_, _, _, _, _, _, _, _)
AloneFrom(graph, registry, h, sref, node, step, max_steps, log) ==
  IF step >= max_steps
  THEN Outcome("", "failed", node, Resolve(h, sref), log)
  ELSE IF node = NONE
  THEN Outcome("", "completed", node, Resolve(h, sref), log)
  ELSE IF node \notin DOMAIN graph.nodes
  THEN Outcome("", "failed", node, Resolve(h, sref), log)
  ELSE IF graph.nodes[node].tool \notin DOMAIN registry
  THEN Raises("KeyError")
  ELSE LET n == graph.nodes[node]
           call == ToolCall(registry[n.tool], h, sref, n.config)
           h1 == Merge(call.heap, sref, call.updates)
           snap == DeepCopy(h1, sref)
           entry == StepLog(step, n.id, n.tool, Resolve(snap.heap, snap.ref))
           nxt == NextNodeId(graph, node, snap.heap[sref].d)
       IN IF call.exc # "" THEN Raises(call.exc)
          ELSE IF nxt.exc # "" THEN Raises(nxt.exc)
          ELSE AloneFrom(graph, registry, snap.heap, sref, nxt.node,
                         step + 1, max_steps, Append(log, entry))

\* run_graph(graph, initial_state, max_steps) run alone, initial_state
\* given by value.
RunAlone(graph, registry, given, max_steps) ==
  LET caller == AllocDict(<<>>, given)
      copy == ShallowCopy(caller.heap, caller.ref)
  IN AloneFrom(graph, registry, copy.heap, copy.ref, graph.start_node,
               0, max_steps, <<>>)

\* What the finished call c produced, read now.
Produced(c) ==
  IF calls[c].pc = "raised" THEN Raises(calls[c].exc)
  ELSE Outcome("", calls[c].status, calls[c].current_node_id,
               Resolve(heap, calls[c].state),
               [i \in 1..Len(calls[c].logs) |->
                  StepLog(calls[c].logs[i].step_index,
                          calls[c].logs[i].node_id,
                          calls[c].logs[i].tool,
                          Resolve(heap, calls[c].logs[i].state_snapshot))])

\* The dicts the call holds: its working state and its snapshots.
OwnDicts(c) ==
  {calls[c].state} \cup
  {calls[c].logs[i].state_snapshot : i \in 1..Len(calls[c].logs)}

\* What the finished call c produced is what it produces when run alone.
AsAlone(c) ==
  (KnownGraph(c) /\ Finished(c)) =>
    Produced(c) = RunAlone(GraphOf(c), tools, calls[c].given, calls[c].max_steps)

\* The calls c and e are apart: the dicts each holds are its own, and the
\* Runs of two returned calls are in the Run Store under distinct ids.
Apart(c, e) ==
  /\ (KnownGraph(c) /\ KnownGraph(e)) => OwnDicts(c) \cap OwnDicts(e) = {}
  /\ (calls[c].pc = "returned" /\ calls[e].pc = "returned") =>
       /\ calls[c].run_id # calls[e].run_id
       /\ ReturnedRun(c, calls[c].status)
       /\ ReturnedRun(e, calls[e].status)

\* C13 as stated: concurrent runs are isolated, for every interleaving of
\* the steps of two run_graph calls on the same engine and every pair of
\* arguments: each call produces what it produces alone, and the calls are
\* apart.
C13_ConcurrentRunsIsolated_AsStated ==
  \A c \in Calls :
    /\ AsAlone(c)
    /\ \A e \in Calls \ {c} : Apart(c, e)

\* The call c was given an initial_state object that another call was
\* given too: both working states share its nested lists.
SharedInput(c) ==
  \E e \in Calls \ {c} :
    /\ calls[c].initial_state # 0
    /\ calls[c].initial_state = calls[e].initial_state

\* C13 as amended: a call whose initial_state object no other call was
\* given (nor a mapping sharing a nested mutable value with it) produces
\* what it produces alone, for every interleaving of the calls' steps; and
\* any two calls are apart.
C13_ConcurrentRunsIsolated ==
  \A c \in Calls :
    /\ ~SharedInput(c) => AsAlone(c)
    /\ \A e \in Calls \ {c} : Apart(c, e)

\* Two calls with mappings of their own have both returned after two steps
\* each, and their steps alternated: the snapshots of the one lie between
\* the snapshots of the other in the heap.
C13_Witness ==
  /\ calls[1].pc = "returned" /\ calls[2].pc = "returned"
  /\ ~SharedInput(1) /\ ~SharedInput(2)
  /\ Len(calls[1].logs) = 2 /\ Len(calls[2].logs) = 2
  /\ calls[1].logs[1].state_snapshot < calls[2].logs[1].state_snapshot
  /\ calls[2].logs[1].state_snapshot < calls[1].logs[2].state_snapshot
  /\ calls[1].logs[2].state_snapshot < calls[2].logs[2].state_snapshot

\* ------------------------------------------------------------------ step budget
\* The steps run_graph takes by itself once it has been entered.
Advance(c) ==
  \/ LoopExhausted(c)
  \/ LoopCompleted(c)
  \/ LoopUnknownNode(c)
  \/ LoopToolMissing(c)
  \/ LoopToolRaises(c)
  \/ LoopCompareRaises(c)
  \/ LoopStep(c)
  \/ StoreRun(c)

\* Graphs with and without cycles: a node alone, a self-loop, an edge to a
\* missing node, a loop left when "n" exceeds 1, a comparison that fails, and
\* the cycle a -> b -> a.
CeilingCatalog ==
  {[name |-> "m", start_node |-> "a",
    nodes_cfg |-> <<Node("a", "t1", EmptyDict)>>,
    edges_cfg |-> es] :
     es \in { <<>>,
              <<LinearEdge("a", "a")>>,
              <<LinearEdge("a", "b")>>,
              <<CondEdge("a", "n", "gt", VInt(1), NONE, "a")>>,
              <<CondEdge("a", "n", "xx", VInt(1), NONE, "a")>> }}
  \cup
  {[name |-> "m", start_node |-> "a",
    nodes_cfg |-> <<Node("a", "t1", EmptyDict), Node("b", "t2", EmptyDict)>>,
    edges_cfg |-> <<LinearEdge("a", "b"), LinearEdge("b", "a")>>]}

\* One run_graph call on a graph of CeilingCatalog.
CeilingNext ==
  \/ \E name \in ToolNames, func \in ToolFuncs : Register(name, func, FALSE)
  \/ CreateGraph(CeilingCatalog, FALSE)
  \/ RunGraphNotFound(1, FALSE)
  \/ RunGraphBegin(1, FALSE)
  \/ Advance(1)

\* run_graph is a synchronous function: once entered it keeps executing,
\* every tool call returning or raising.
SpecCeiling == Init /\ [][CeilingNext]_vars /\ WF_vars(Advance(1))

\* C14: max_steps is a hard ceiling.  For every graph, cyclic ones
\* included, and every max_steps >= 0, a call never makes more than
\* max_steps tool invocations nor logs more than max_steps entries, and a
\* call that has entered its loop ends (it returns or raises).
C14_MaxStepsIsCeiling ==
  /\ [](\A c \in Calls :
          /\ calls[c].invoked <= calls[c].max_steps
          /\ Len(calls[c].logs) <= calls[c].max_steps
          /\ calls[c].step_index <= calls[c].max_steps)
  /\ \A c \in Calls : (calls[c].pc = "loop") ~> Finished(c)

\* A call on the cycle a -> b -> a has returned after exactly max_steps >= 2
\* tool invocations.
C14_Witness ==
  \E c \in Calls :
    /\ calls[c].pc = "returned" /\ KnownGraph(c)
    /\ "a" \in DOMAIN GraphOf(c).edges /\ "b" \in DOMAIN GraphOf(c).edges
    /\ GraphOf(c).edges["a"].to_node = "b"
    /\ GraphOf(c).edges["b"].to_node = "a"
    /\ calls[c].max_steps >= 2
    /\ calls[c].invoked = calls[c].max_steps
    /\ Len(calls[c].logs) = calls[c].max_steps

\* ------------------------------------------------------------------ registry
\* C15: registering a tool under a name already in use overwrites the prior
\* operation.  After register(name, func) the registry maps name to func,
\* whatever it mapped it to before, and the other names are as they were;
\* and every tool invocation of a run runs the operation the registry holds
\* at that moment for the tool name of the node, whenever the graph was
\* created: so a run started after the second register runs the new
\* operation at each node bound to the name, never the old one.
C15_ReRegisterOverwrites ==
  /\ [][\A name \in ToolNames, func \in ToolFuncs :
          Register(name, func, FALSE) =>
            /\ DOMAIN tools' = DOMAIN tools \cup {name}
            /\ tools'[name] = func
            /\ \A other \in DOMAIN tools \ {name} : tools'[other] = tools[other]]_vars
  /\ [][\A c \in Calls :
          Len(calls'[c].ops) # Len(calls[c].ops) =>
            /\ Len(calls'[c].ops) = Len(calls[c].ops) + 1
            /\ calls'[c].ops[Len(calls'[c].ops)] = tools[CurrentNode(c).tool]]_vars
  /\ [](\A c \in Calls :
          /\ Len(calls[c].ops) = calls[c].invoked
          /\ calls[c].pc \in {"loop", "store"} =>
               \A i \in 1..Len(calls[c].logs) :
                 calls[c].ops[i] = tools[calls[c].logs[i].tool])

\* Two runs of one graph, created before both, have returned; at the node
\* "a", bound to one tool name, the first ran one operation and the second
\* another: the name was registered again between them.
C15_Witness ==
  /\ calls[1].pc = "returned" /\ calls[2].pc = "returned"
  /\ calls[1].graph_id = calls[2].graph_id
  /\ calls[1].graph_id < calls[1].run_id
  /\ calls[1].logs # <<>> /\ calls[2].logs # <<>>
  /\ calls[1].logs[1].node_id = calls[2].logs[1].node_id
  /\ calls[1].logs[1].tool = calls[2].logs[1].tool
  /\ calls[1].ops[1] # calls[2].ops[1]
  /\ calls[2].ops[1] = tools[calls[2].logs[1].tool]

\* ------------------------------------------------------------------ the example workflow
\* create_summarization_workflow's nodes and edges.
ExampleNodes ==
  << Node("split", "split_text", ("chunk_size" :> VInt(80))),
     Node("summarize", "summarize_chunks", ("per_chunk_summary_size" :> VInt(30))),
     Node("merge", "merge_summaries", EmptyDict),
     Node("evaluate", "evaluate_summary", EmptyDict),
     Node("refine", "refine_summary", ("max_summary_words" :> VInt(80))) >>

ExampleEdges ==
  << LinearEdge("split", "summarize"),
     LinearEdge("summarize", "merge"),
     LinearEdge("merge", "evaluate"),
     CondEdge("evaluate", "summary_length", "gt", VInt(80), "refine", NONE),
     LinearEdge("refine", "evaluate") >>

\* run_graph's default max_steps, which main.py's endpoint runs with.
DefaultMaxSteps == 100

\* The engine of main.py once the module is loaded: the default tools are
\* registered and the example graph is created, with the first id.
ExampleInit ==
  /\ tools = DefaultTools
  /\ graphs = (1 :> Graph(1, "summarization_and_refinement", "split",
                         NodesOf(ExampleNodes), EdgesOf(ExampleEdges)))
  /\ runs = [k \in {} |-> Run(0, 0, "", NONE, 0, <<>>)]
  /\ heap = <<>>
  /\ calls = [c \in Calls |-> IdleCall]
  /\ uuids = 1
  /\ used = [register |-> 0, mutate |-> 0]

\* A text of n distinct words.
Words(n) == [i \in 1..n |-> i]

TextLengths == {0, 100, 200, 400}
SummaryLimits == {0 - 1, 0, 80, 81, 200}

\* The settings of main.py's example request, with a summary limit.
AllSettings(limit) ==
  ("chunk_size" :> VInt(80)) @@ ("per_chunk_summary_size" :> VInt(30))
    @@ ("max_summary_words" :> VInt(limit))

\* The initial states: a text with all settings, with the limit alone,
\* with no setting, and with a chunk_size of 0.
ExampleStates ==
  {("text" :> VText(Words(n))) @@ AllSettings(m) :
     n \in TextLengths, m \in SummaryLimits}
  \cup
  {("text" :> VText(Words(n))) @@ ("max_summary_words" :> VInt(m)) :
     n \in TextLengths, m \in SummaryLimits}
  \cup
  {("text" :> VText(Words(n))) : n \in TextLengths}
  \cup
  {("text" :> VText(Words(200))) @@ ("chunk_size" :> VInt(0))}

\* One run of the example graph, as main.py's endpoint makes it.  Every
\* node of the graph exists, every tool is registered and summary_length is
\* an int when it is compared: the loop's other exits cannot be taken.
ExampleNext ==
  \/ RunGraphBeginWith(1, FALSE, ExampleStates, {DefaultMaxSteps})
  \/ LoopExhausted(1)
  \/ LoopCompleted(1)
  \/ LoopToolRaises(1)
  \/ LoopStep(1)
  \/ StoreRun(1)

SpecExample == ExampleInit /\ [][ExampleNext]_vars

\* The node ids of a call's log, in order.
Visited(c) == [i \in 1..Len(calls[c].logs) |-> calls[c].logs[i].node_id]

\* The numbers of words of the strings of a list.
Lengths(strings) == [i \in 1..Len(strings) |-> Len(strings[i])]

\* The call was given the 200-word text with chunk_size = 80,
\* per_chunk_summary_size = 30 and max_summary_words = 80.
ScenarioInput(c) ==
  /\ calls[c].pc # "idle"
  /\ calls[c].given = ("text" :> VText(Words(200))) @@ AllSettings(80)

\* C16: on the example graph with the 200-word text, chunk_size = 80,
\* per_chunk_summary_size = 30 and max_summary_words = 80, the run visits
\* split, summarize, merge, evaluate, refine, evaluate in that order: 3
\* chunks of 80, 80 and 40 words, summaries of 30 words each, a merged
\* summary of 90 words, one pass through refine that keeps its first 80
\* words; it ends with status completed and summary_length <= 80.
C16_ExampleRun ==
  \A c \in Calls :
    ScenarioInput(c) =>
      /\ calls[c].pc # "raised"
      /\ \A i \in 1..Len(calls[c].logs) :
           calls[c].logs[i].node_id =
             <<"split", "summarize", "merge", "evaluate", "refine", "evaluate">>[i]
      /\ Len(calls[c].logs) <= 6
      /\ Finished(c) =>
           /\ ReturnedRun(c, "completed")
           /\ Len(calls[c].logs) = 6
           /\ Lengths(calls[c].merged[1]["chunks"].items) = <<80, 80, 40>>
           /\ Lengths(calls[c].merged[2]["chunk_summaries"].items) = <<30, 30, 30>>
           /\ Len(calls[c].merged[3]["summary"].items) = 90
           /\ calls[c].merged[4]["summary_length"] = VInt(90)
           /\ calls[c].merged[5]["summary"] =
                VText(Slice(calls[c].merged[3]["summary"].items, 80))
           /\ calls[c].merged[6]["summary_length"] = VInt(80)
           /\ Resolve(heap, calls[c].state)["summary_length"].v <= 80

\* The run of that scenario has returned with its six steps logged.
C16_Witness ==
  \E c \in Calls :
    /\ ScenarioInput(c)
    /\ calls[c].pc = "returned"
    /\ Visited(c) = <<"split", "summarize", "merge", "evaluate", "refine", "evaluate">>

\* ------------------------------------------------------------------ the stores
\* The host's calls one at a time: register, create_graph and run_graph in
\* any order, a run_graph call with a mapping of its own or with the
\* mapping an earlier call was given.
StoresNext ==
  \/ \E func \in ToolFuncs : Register("t1", func, FALSE)
  \/ CreateGraphUpTo(ConcCatalog, FALSE, MaxGraphs + 1)
  \/ \E c \in Calls : RunGraphNotFound(c, FALSE)
  \/ \E c \in Calls : RunGraphBeginWith(c, FALSE, ConcStates, ConcBudgets)
  \/ \E c \in Calls : RunGraphBeginShared(c, FALSE, ConcBudgets)
  \/ \E c \in Calls : Advance(c)

SpecStores == Init /\ [][StoresNext]_vars

\* A Run's log with its snapshots read by value on the heap h.
LogRead(h, run) ==
  [i \in 1..Len(run.log) |->
     StepLog(run.log[i].step_index, run.log[i].node_id, run.log[i].tool,
             Resolve(h, run.log[i].state_snapshot))]

\* In this step the stored graphs stay: each keeps its id, nodes, edges and
\* start_node, and get_graph keeps returning it.
GraphsStay ==
  \A gid \in DOMAIN graphs :
    /\ gid \in DOMAIN graphs'
    /\ graphs'[gid] = graphs[gid]

\* In this step the stored Runs stay as records: each keeps its id, status,
\* current_node, its state mapping with the same keys bound to the same
\* values and objects, and its log with the snapshots as they read.
RunsStay ==
  \A rid \in DOMAIN runs :
    /\ rid \in DOMAIN runs'
    /\ runs'[rid] = runs[rid]
    /\ heap'[runs[rid].state].d = heap[runs[rid].state].d
    /\ LogRead(heap', runs[rid]) = LogRead(heap, runs[rid])

\* C17 as stated: the Graph Store and the Run Store are append-only.  No
\* step of a later create_graph, register or run_graph call changes a
\* stored graph or a stored Run: its status, current_node, log, or its
\* state as it reads.
C17_StoresAppendOnly_AsStated ==
  [][/\ GraphsStay
     /\ RunsStay
     /\ \A rid \in DOMAIN runs :
          Resolve(heap', runs[rid].state) = Resolve(heap, runs[rid].state)]_vars

\* The step is one of a call whose working state holds a list that the
\* state of the stored Run rid holds too.
StepOfSharer(rid) ==
  \E c \in Calls :
    /\ calls'[c] # calls[c]
    /\ calls[c].state # 0
    /\ RefsOf(heap[calls[c].state].d) \cap RefsOf(heap[runs[rid].state].d) # {}

\* C17 as amended: no step of a later call changes a stored graph, or a
\* stored Run's status, current_node, log, or the keys and bindings of its
\* state; what a nested list of the Run's state holds changes only by a
\* step of a run_graph call that works on the same list (a call given the
\* initial_state mapping the Run's call was given).
C17_StoresAppendOnly ==
  [][/\ GraphsStay
     /\ RunsStay
     /\ \A rid \in DOMAIN runs :
          Resolve(heap', runs[rid].state) # Resolve(heap, runs[rid].state) =>
            StepOfSharer(rid)]_vars

\* The Run of the first call is stored; since then a graph was created and
\* a second call, with a mapping of its own, has run two steps and returned.
C17_Witness ==
  /\ calls[1].pc = "returned" /\ calls[2].pc = "returned"
  /\ calls[1].run_id \in DOMAIN runs /\ calls[2].run_id \in DOMAIN runs
  /\ calls[1].initial_state # calls[2].initial_state
  /\ Len(calls[2].logs) = 2
  /\ \E gid \in DOMAIN graphs : gid > calls[1].run_id /\ gid < calls[2].run_id
  /\ GetRun(calls[1].run_id).run =
       Run(calls[1].run_id, calls[1].graph_id, calls[1].status,
           calls[1].current_node_id, calls[1].state, calls[1].logs)

\* ------------------------------------------------------------------ the merge
\* In this step call c ran a loop body whose tool returned.
Stepped(c) ==
  /\ AtNode(c)
  /\ CurrentNode(c).tool \in DOMAIN tools
  /\ Body(c).call.exc = ""
  /\ calls'[c].invoked = calls[c].invoked + 1

\* A value as a reader sees it on the heap h.
Read(h, val) == IF val.t = "ref" THEN VList(h[val.v].items) ELSE val

\* The working state of c after the step is the state as the tool left it
\* with the returned updates written over it.
MergedByOverwrite(c) ==
  LET call == Body(c).call
      sref == calls[c].state
      before == call.heap[sref].d
      after == heap'[sref].d
  IN /\ DOMAIN after = DOMAIN before \cup DOMAIN call.updates
     /\ \A k \in DOMAIN call.updates :
          /\ after[k] = call.updates[k]
          /\ Read(heap', after[k]) = Read(call.heap, call.updates[k])
     /\ \A k \in DOMAIN before \ DOMAIN call.updates :
          /\ after[k] = before[k]
          /\ Read(heap', after[k]) = Read(call.heap, before[k])
     /\ call.updates = EmptyDict =>
          /\ after = before
          /\ Resolve(heap', sref) = Resolve(call.heap, sref)

\* C18: at each step the tool's result is merged into the working state by
\* overwrite: every returned key has the returned value, every other key
\* keeps the value it had when the tool returned, an empty result leaves the
\* state as the tool left it; and no step of any call makes the caller's
\* initial_state mapping gain, lose or rebind a top-level key.
C18_MergeByOverwrite ==
  [][\A c \in Calls :
       /\ Stepped(c) => MergedByOverwrite(c)
       /\ calls[c].initial_state # 0 =>
            /\ calls'[c].initial_state = calls[c].initial_state
            /\ heap'[calls[c].initial_state].d = heap[calls[c].initial_state].d]_vars

\* One call has taken a step whose updates wrote over a key the state had
\* (n, counted up from the caller's value), and its initial_state still
\* binds n as given; one call has taken a step with an empty result (touch
\* on a state that holds the list).
C18_Witness ==
  /\ \E c \in Calls :
       /\ "n" \in DOMAIN calls[c].given
       /\ calls[c].given["n"].t = "int"
       /\ \E i \in 1..Len(calls[c].ops) : calls[c].ops[i] = "inc"
       /\ Len(calls[c].merged) = Len(calls[c].ops)
       /\ heap[calls[c].state].d["n"] # calls[c].given["n"]
       /\ heap[calls[c].initial_state].d["n"] = calls[c].given["n"]
  /\ \E e \in Calls :
       /\ "l" \in DOMAIN calls[e].given
       /\ Len(calls[e].merged) >= 1
       /\ calls[e].ops[1] = "touch"

\* ------------------------------------------------------------------ the log
\* next_node(graph, node_id, snapshot) for the i-th entry of a Run's log.
NextAfter(run, i) ==
  NextNodeId(graphs[run.graph_id], run.log[i].node_id,
             heap[run.log[i].state_snapshot].d)

\* C19: the log of every stored Run is a faithful trace of the graph walk.
\* The first entry is at the graph's start_node; the i-th entry (from 0)
\* has step_index i and the tool bound to its node; each next entry is at
\* the node next_node gives for the entry before it and that entry's
\* snapshot; current_node is next_node of the last entry, or start_node
\* when the log is empty.
C19_LogIsTrace ==
  \A rid \in DOMAIN runs :
    LET run == runs[rid]
        graph == graphs[run.graph_id]
        n == Len(run.log)
    IN /\ n > 0 => run.log[1].node_id = graph.start_node
       /\ \A i \in 1..n :
            /\ run.log[i].step_index = i - 1
            /\ run.log[i].node_id \in DOMAIN graph.nodes
            /\ run.log[i].tool = graph.nodes[run.log[i].node_id].tool
       /\ \A i \in 1..(n - 1) :
            /\ NextAfter(run, i).exc = ""
            /\ run.log[i + 1].node_id = NextAfter(run, i).node
       /\ n = 0 => run.current_node = graph.start_node
       /\ n > 0 =>
            /\ NextAfter(run, n).exc = ""
            /\ run.current_node = NextAfter(run, n).node

\* A stored Run with three log entries whose walk took a conditional edge
\* and came back to a node it had visited; and a stored Run with an empty
\* log.
C19_Witness ==
  /\ \E rid \in DOMAIN runs :
       /\ Len(runs[rid].log) = 3
       /\ runs[rid].log[1].node_id \in DOMAIN graphs[runs[rid].graph_id].edges
       /\ graphs[runs[rid].graph_id].edges[runs[rid].log[1].node_id].condition_key # NONE
       /\ runs[rid].log[3].node_id = runs[rid].log[1].node_id
  /\ \E rid \in DOMAIN runs : runs[rid].log = <<>>

\* ------------------------------------------------------------------ the refine loop
\* The call's run has a merged summary: its third step, merge, is done.
HasMerged(c) == Len(calls[c].merged) >= 3

\* The number of words of the merged summary.
MergedWords(c) == Len(calls[c].merged[3]["summary"].items)

\* The max_summary_words refine works with: the caller's, else the one of
\* the refine node's config.
Limit(c) ==
  IF "max_summary_words" \in DOMAIN calls[c].given
  THEN calls[c].given["max_summary_words"].v
  ELSE graphs[calls[c].graph_id].nodes["refine"].config["max_summary_words"].v

\* The run's summary_length was above 80 every time evaluate computed it.
NeverWithinGuard(c) ==
  \A i \in 4..Len(calls[c].merged) : calls[c].merged[i]["summary_length"].v > 80

\* The run went round refine -> evaluate until the budget was used up.
LoopedToTheEnd(c) ==
  /\ ReturnedRun(c, "failed")
  /\ Len(calls[c].logs) = calls[c].max_steps
  /\ NeverWithinGuard(c)
  /\ \A i \in 5..Len(calls[c].logs) :
       calls[c].logs[i].node_id = IF i % 2 = 1 THEN "refine" ELSE "evaluate"

\* C20 as stated: with max_steps = 100 a run of the example graph that has
\* a merged summary completes if and only if that summary has at most 80
\* words or max_summary_words <= 80; with more than 80 words and
\* max_summary_words > 80 it fails with exactly max_steps log entries.
C20_RefineLoop_AsStated ==
  \A c \in Calls :
    (Finished(c) /\ HasMerged(c)) =>
      /\ ReturnedRun(c, "completed") <=> (MergedWords(c) <= 80 \/ Limit(c) <= 80)
      /\ (MergedWords(c) > 80 /\ Limit(c) > 80) => LoopedToTheEnd(c)

\* The passes through refine a run needs to come within the guard when
\* each pass drops n >= 1 words (words[:-n]).
PassesNeeded(words, n) == (words - 80 + n - 1) \div n

\* C20 as amended: with max_steps = 100 a run of the example graph that has
\* a merged summary of more than 80 words
\*  - with 0 <= max_summary_words <= 80 completes after one pass through
\*    refine, in 6 steps;
\*  - with max_summary_words > 80 never has summary_length <= 80 and ends
\*    failed with exactly max_steps log entries;
\*  - with max_summary_words = -n < 0 loses n words per pass and completes
\*    if and only if the passes it needs fit the budget
\*    (4 + 2 * passes < max_steps).
\* A run whose merged summary has at most 80 words completes in 4 steps.
C20_RefineLoop ==
  \A c \in Calls :
    (Finished(c) /\ HasMerged(c)) =>
      /\ MergedWords(c) <= 80 =>
           ReturnedRun(c, "completed") /\ Len(calls[c].logs) = 4
      /\ (MergedWords(c) > 80 /\ Limit(c) >= 0 /\ Limit(c) <= 80) =>
           ReturnedRun(c, "completed") /\ Len(calls[c].logs) = 6
      /\ (MergedWords(c) > 80 /\ Limit(c) > 80) => LoopedToTheEnd(c)
      /\ (MergedWords(c) > 80 /\ Limit(c) < 0) =>
           LET passes == PassesNeeded(MergedWords(c), 0 - Limit(c))
           IN IF 4 + 2 * passes < calls[c].max_steps
              THEN /\ ReturnedRun(c, "completed")
                   /\ Len(calls[c].logs) = 4 + 2 * passes
              ELSE /\ ReturnedRun(c, "failed")
                   /\ Len(calls[c].logs) = calls[c].max_steps

\* A run given the 400-word text (merged summary of 150 words) and
\* max_summary_words = 200 has returned failed after 100 steps.
C20_Witness ==
  \E c \in Calls :
    /\ calls[c].given = ("text" :> VText(Words(400))) @@ AllSettings(200)
    /\ HasMerged(c) /\ MergedWords(c) = 150
    /\ ReturnedRun(c, "failed")
    /\ Len(calls[c].logs) = DefaultMaxSteps
    /\ calls[c].logs[DefaultMaxSteps].node_id = "evaluate"

TypeOK ==
  /\ DOMAIN tools \subseteq ToolNames
  /\ \A c \in Calls : calls[c].pc \in {"idle", "loop", "store", "returned", "raised"}

====
